---- MODULE Spec2Model ----
(***************************************************************************)
(* State-machine model of the trading service (src/trading-service/main.py) *)
(* of the Sentiment-Trading-Bot: the sentiment aggregator, the decision    *)
(* cycle run_trading_bot, the order executor execute_trade / store_trade,  *)
(* the position reconciler and the manual /trade endpoint.                 *)
(*                                                                         *)
(* Numbers.  Scores, weights and thresholds are kept in tenths (0.6 is 6). *)
(* A quotient is an exact rational [n |-> numerator, d |-> denominator]    *)
(* with d > 0; binary floating-point rounding is not modelled.             *)
(*                                                                         *)
(* Scheduling.  Every coroutine of the service runs on one asyncio event   *)
(* loop.  The variable loop names the coroutine that holds the loop; a     *)
(* coroutine gives the loop up only when it finishes or at a step listed   *)
(* in YieldPoints.  All store, cache, broker and price calls are blocking. *)
(***************************************************************************)
EXTENDS Integers, Sequences, FiniteSets, TLC

\* ------------------------------------------------------------------ bounds
MaxOrders == 2
MaxTrades == 2
NumManual == 2

\* --------------------------------------------------------- program constants
\* Config.max_position_size default (MAX_POSITION_SIZE), main.py:43
max_position_size_default == 10000
\* Config.sentiment_threshold default (SENTIMENT_THRESHOLD) in tenths, main.py:44
sentiment_threshold_default == 6
\* keys[:50], main.py:143
KeysLimit == 50

\* logger is logging.getLogger(__name__) at level INFO (main.py:22-24).  The
\* standard library Logger.info/warning/error pass keyword arguments to
\* Logger._log, which accepts only exc_info, extra, stack_info, stacklevel:
\* a call such as logger.error("...", error=str(e), symbol=symbol) raises
\* TypeError.  kwlog_raises is TRUE for that logger.
kwlog_raises == TRUE

\* What a function yields when its "except Exception" handler runs: every
\* such handler starts with a keyword-argument logger call, so the handler
\* itself raises; with a logger that accepted them it would yield fallback.
Handler(fallback) == IF kwlog_raises THEN "raise" ELSE fallback

\* What follows a keyword-argument logger call made inside a try block whose
\* handler is Handler(fallback): the call raises, the handler runs.
AfterKwLog(continue, fallback) == IF kwlog_raises THEN Handler(fallback) ELSE continue

Symbols == {"X", "Y"}
Sources == {"twitter", "reddit", "news"}
Absent == -1

\* ------------------------------------------------------------- rationals
Rat(n, d) == [n |-> n, d |-> d]
RAdd(a, b) == Rat(a.n * b.d + b.n * a.d, a.d * b.d)
RScale(a, k) == Rat(a.n * k, a.d)
RDivInt(a, k) == Rat(a.n, a.d * k)
RGt(a, b) == a.n * b.d > b.n * a.d
RLt(a, b) == a.n * b.d < b.n * a.d
REq(a, b) == a.n * b.d = b.n * a.d
RZero == Rat(0, 1)

\* ------------------------------------------------------------ config source
\* One entry of trading.symbols: each field may be absent.  has_weights says
\* whether the entry has a "weights" key; weights is the dict's items in
\* iteration order, a sequence of <<source, weight>>.
Entry(present, has_weights, weights, threshold, max_size) ==
    [present |-> present, has_weights |-> has_weights, weights |-> weights,
     sentiment_threshold |-> threshold, max_position_size |-> max_size]
NoEntry == Entry(FALSE, FALSE, <<>>, Absent, Absent)
EmptyEntry == Entry(TRUE, FALSE, <<>>, Absent, Absent)

\* "sentiment_weights" of the built-in defaults, main.py:184-188
DefaultWeights == << <<"twitter", 4>>, <<"reddit", 3>>, <<"news", 3>> >>

\* The document load_trading_config returns when the file cannot be read
\* (main.py:178-190): general, sentiment_weights and no "symbols" key.
DefaultConfig ==
    [symbols |-> <<>>, entry |-> [s \in Symbols |-> NoEntry],
     sentiment_weights |-> DefaultWeights]

\* Contents the file /app/configs/trading_config.json may have.
ConfigDocs ==
    { [symbols |-> <<>>, entry |-> [s \in Symbols |-> NoEntry],
       sentiment_weights |-> DefaultWeights],
      [symbols |-> <<"X", "Y">>,
       entry |-> [s \in Symbols |->
                    IF s = "X" THEN Entry(TRUE, FALSE, <<>>, Absent, 8000)
                    ELSE Entry(TRUE, TRUE, << <<"twitter", 10>> >>, 5, Absent)],
       sentiment_weights |-> DefaultWeights],
      [symbols |-> <<"Y", "X">>,
       entry |-> [s \in Symbols |->
                    IF s = "X" THEN EmptyEntry
                    ELSE Entry(TRUE, TRUE, << <<"twitter", 20>>, <<"news", -10>> >>,
                               Absent, Absent)],
       sentiment_weights |-> DefaultWeights] }

\* load_trading_config: the parsed file, or, when open/json.load raises, the
\* handler: logger.error(..., error=str(e)) and then the defaults.
load_trading_config(readable, doc) ==
    IF readable THEN [kind |-> "ok", doc |-> doc]
    ELSE [kind |-> Handler("ok"), doc |-> DefaultConfig]

\* config_data.get("trading", {}).get("symbols", {}).get(symbol, {})
symbol_config(doc, symbol) == doc.entry[symbol]

\* "not symbol_config": the key is missing or the entry is an empty dict.
IsEmptyConfig(e) ==
    \/ ~e.present
    \/ ~e.has_weights /\ e.sentiment_threshold = Absent /\ e.max_position_size = Absent

\* ------------------------------------------------------ sentiment aggregator
\* A cache entry: ok says that it has a sentiment_score field that float()
\* parses; v is that score in tenths.
Obs(v) == [ok |-> TRUE, v |-> v]
BadObs == [ok |-> FALSE, v |-> 0]

\* What the cache may hold for one instrument: per source, the entries of
\* the keys matching sentiment:<symbol>:<source>:*.
ObsScenarios ==
    { [s \in Sources |-> <<>>],
      [s \in Sources |-> IF s = "twitter" THEN <<Obs(8), Obs(6)>>
                         ELSE IF s = "news" THEN <<Obs(5)>> ELSE <<>>],
      [s \in Sources |-> IF s = "twitter" THEN <<Obs(5), Obs(-5)>> ELSE <<>>],
      [s \in Sources |-> IF s = "twitter" THEN <<BadObs>>
                         ELSE IF s = "reddit" THEN <<BadObs, Obs(4)>> ELSE <<>>],
      [s \in Sources |-> IF s = "twitter" THEN <<Obs(-8)>> ELSE <<Obs(-7)>>] }

RECURSIVE SumSeq(_)
SumSeq(q) == IF q = <<>> THEN 0 ELSE Head(q).v + SumSeq(Tail(q))

Min2(a, b) == IF a < b THEN a ELSE b

\* Variant: the first entry without a usable score ends the loop over the
\* keys (break in place of continue).
source_scores_StopsAtMalformed(entries) ==
    LET cut == SubSeq(entries, 1, Min2(KeysLimit, Len(entries)))
        bad == {i \in 1..Len(cut) : ~cut[i].ok}
        stop == IF bad = {} THEN Len(cut) + 1
                ELSE CHOOSE i \in bad : \A j \in bad : i <= j
    IN  SubSeq(cut, 1, stop - 1)

\* source_scores: the parsed scores of keys[:50] (main.py:142-150)
source_scores(entries) ==
    SelectSeq(SubSeq(entries, 1, Min2(KeysLimit, Len(entries))), LAMBDA e : e.ok)

\* np.mean(source_scores)
mean(scores) == Rat(SumSeq(scores), Len(scores))

\* Variant: the weight of a configured source is added to total_weight even
\* when the source has no usable observation.
AccumulateSource_CountsEmpty(acc, source, weight, obs) ==
    LET scores == source_scores(obs[source]) IN
    IF obs[source] # <<>> /\ scores # <<>>
    THEN [total_weighted_score |-> RAdd(acc.total_weighted_score, RScale(mean(scores), weight)),
          total_weight |-> acc.total_weight + weight,
          source_count |-> acc.source_count + 1]
    ELSE [acc EXCEPT !.total_weight = @ + weight]

\* One iteration of "for source, weight in weights.items()" (main.py:137-156)
AccumulateSource(acc, source, weight, obs) ==
    LET scores == source_scores(obs[source]) IN
    IF obs[source] # <<>> /\ scores # <<>>
    THEN [total_weighted_score |-> RAdd(acc.total_weighted_score, RScale(mean(scores), weight)),
          total_weight |-> acc.total_weight + weight,
          source_count |-> acc.source_count + 1]
    ELSE acc

RECURSIVE Accumulate(_, _, _)
Accumulate(acc, weights, obs) ==
    IF weights = <<>> THEN acc
    ELSE Accumulate(AccumulateSource(acc, Head(weights)[1], Head(weights)[2], obs),
                    Tail(weights), obs)

\* total_weighted_score = 0, total_weight = 0, source_count = 0 (main.py:133-135)
Acc0 == [total_weighted_score |-> RZero, total_weight |-> 0, source_count |-> 0]

\* symbol_config.get("weights", config_data...get("sentiment_weights", {}))
weights_of(doc, e) == IF e.has_weights THEN e.weights ELSE doc.sentiment_weights

AggResult(kind, at, acc, weights, scanned) ==
    [kind |-> kind, at |-> at, scanned |-> scanned, weights |-> weights,
     computed |-> scanned /\ acc.total_weight > 0,
     total_weight |-> acc.total_weight, source_count |-> acc.source_count,
     weighted_score |-> IF scanned /\ acc.total_weight > 0
                        THEN RDivInt(acc.total_weighted_score, acc.total_weight)
                        ELSE RZero]

\* aggregate_sentiment(symbol) (main.py:116-167).  kind is "score" when a
\* score is returned, "none" when None is returned, "raise" when an exception
\* leaves the function; at names the place where the function ended: "load"
\* (the config load raised), "missing" / "empty" (the guard "not
\* symbol_config", for an instrument without an entry / with an empty one),
\* "nocache", "cache" (a cache call raised) or "data"; scanned says that the
\* loop over the weights ran (weights are the ones it used), computed that
\* line 159 assigned weighted_score.
aggregate_sentiment(symbol, readable, doc, redis_ok, redis_raises, obs) ==
    LET cfg == load_trading_config(readable, doc)
        e == symbol_config(cfg.doc, symbol)
        weights == weights_of(cfg.doc, e)
        acc == Accumulate(Acc0, weights, obs)
    IN  IF cfg.kind = "raise" THEN AggResult(Handler("none"), "load", Acc0, <<>>, FALSE)
        ELSE IF IsEmptyConfig(e)
        THEN AggResult(AfterKwLog("none", "none"), IF e.present THEN "empty" ELSE "missing",
                       Acc0, <<>>, FALSE)
        ELSE IF ~redis_ok THEN AggResult("none", "nocache", Acc0, <<>>, FALSE)
        ELSE IF redis_raises THEN AggResult(Handler("none"), "cache", Acc0, <<>>, FALSE)
        ELSE IF acc.total_weight > 0
        THEN AggResult(AfterKwLog("score", "none"), "data", acc, weights, TRUE)
        ELSE AggResult("none", "data", acc, weights, TRUE)

\* ------------------------------------------------------------------- state
VARIABLES
    redis_client,       \* the cache handle is set (not None)
    postgres_conn,      \* the durable-store handle is set
    alpaca_api,         \* the broker handle is set
    scheduler_running,  \* scheduler.running
    bot,                \* jobs: the ids scheduler.get_jobs() lists; response:
                        \* the last answer of /bot/start or /bot/stop
    loop,               \* the coroutine that holds the event loop
    cyc,                \* locals and position of run_trading_bot
    ex,                 \* per caller: locals and position of execute_trade
    man,                \* per manual /trade request: position and response
    trades,             \* the trades table, in insertion order
    trades_index,       \* "unique" or "plain": the index on trades.alpaca_order_id;
                        \* "unknown" until an insert of a recorded id shows it
    pg_broken,          \* the store connection is in a failed transaction
    mirror,             \* the portfolio_positions table: a sequence of rows
    broker_orders,      \* orders the broker accepted; the order id is the index
    broker_pos,         \* positions held at the broker
    job,                \* position and outcome of the portfolio_update job
    replay              \* position and outcome of a repeated store_trade call

vars == <<redis_client, postgres_conn, alpaca_api, scheduler_running, bot,
          loop, cyc, ex, man, trades, trades_index, pg_broken, mirror,
          broker_orders, broker_pos, job, replay>>

\* Coroutines: the scheduled cycle and the manual requests.
Idle == <<"idle">>
\* Before the startup event the event loop serves nothing.
Boot == <<"boot">>
Cycle == <<"cycle">>
Manual(i) == <<"manual", i>>
Recon == <<"recon">>
Replayer == <<"replay">>
Manuals == {Manual(i) : i \in 1..NumManual}
Callers == {Cycle} \cup Manuals

\* The steps at which a coroutine suspends and frees the event loop: only
\* "await asyncio.sleep(1)" (main.py:374).  Awaiting execute_trade or
\* store_trade runs them inline; their I/O calls block the loop.
\* Variant: the broker call is awaited, so submit_order frees the loop.
YieldPoints_AwaitedSubmit == {"sleep", "submit"}

YieldPoints == {"sleep"}

Prices == {4000, 6000}

NoPositions == [s \in Symbols |-> 0]

JobIdle == [pc |-> "idle", committed |-> FALSE, positions |-> NoPositions,
            overwrote |-> FALSE, listed |-> FALSE, store_up |-> FALSE]

ExOff == [pc |-> "off", symbol |-> "X", side |-> "BUY", quantity |-> 0,
          current_price |-> 0, order_id |-> 0, order_status |-> "none",
          entry_cap |-> Absent, max_position_size |-> 0,
          result |-> "none", attempts |-> 0, polls |-> 0, log0 |-> 0,
          suspended |-> FALSE]

NoObs == [s \in Sources |-> <<>>]
NoAgg == AggResult("none", "idle", Acc0, <<>>, FALSE)

CycIdle == [pc |-> "idle", suspended |-> FALSE, loaded |-> "none",
            config_data |-> DefaultConfig,
            positions |-> NoPositions, idx |-> 1, symbol |-> "X",
            processed |-> {}, failed |-> {}, reconciled |-> FALSE,
            agg |-> NoAgg, obs |-> NoObs, current_price |-> 0, decision |-> "NONE",
            snapshot |-> "none"]

\* exec is the execution the response was made from.
ManIdle == [pc |-> "idle", response |-> "none", exec |-> ExOff]

ReplayIdle == [pc |-> "idle", recorded |-> FALSE, store_ok |-> FALSE, outcome |-> "none"]


\* ------------------------------------------------------------ the scheduler
\* scheduler = AsyncIOScheduler() (main.py:52): no job, not running.
BotOff == [jobs |-> <<>>, response |-> "none"]

HasJob(jobs, id) == \E i \in 1..Len(jobs) : jobs[i] = id

\* scheduler.add_job(..., id=id, replace_existing=True) (main.py:393-399,
\* 402-408): the job of that id is replaced where it stands, a new id is
\* added.
add_job(jobs, id) == IF HasJob(jobs, id) THEN jobs ELSE Append(jobs, id)

\* Variant: the jobs are added and scheduler.start() is not called.
setup_scheduler_NoStart(running, jobs) ==
    [outcome |-> "ok", running |-> running,
     jobs |-> add_job(add_job(jobs, "trading_bot"), "portfolio_update")]

\* setup_scheduler (main.py:389-414): both jobs are added, then
\* scheduler.start(), which raises SchedulerAlreadyRunningError on a running
\* scheduler; logger.info("Scheduler started successfully") has no keyword
\* arguments.  The handler logs with keyword arguments.
setup_scheduler(running, jobs) ==
    LET added == add_job(add_job(jobs, "trading_bot"), "portfolio_update")
    IN  IF running THEN [outcome |-> Handler("ok"), running |-> TRUE, jobs |-> added]
        ELSE [outcome |-> "ok", running |-> TRUE, jobs |-> added]

\* The scheduler as setup_scheduler leaves a stopped one.
BotOn == [jobs |-> setup_scheduler(FALSE, <<>>).jobs, response |-> "none"]

\* Module-level state before the startup event (main.py:48-52).
Init ==
    /\ redis_client = FALSE
    /\ postgres_conn = FALSE
    /\ alpaca_api = FALSE
    /\ scheduler_running = FALSE
    /\ bot = BotOff
    /\ loop = Boot
    /\ cyc = CycIdle
    /\ ex = [t \in Callers |-> ExOff]
    /\ man = [m \in Manuals |-> ManIdle]
    /\ trades = <<>>
    /\ trades_index = "unknown"
    /\ pg_broken = FALSE
    /\ mirror = <<>>
    /\ broker_orders = <<>>
    /\ broker_pos = [s \in Symbols |-> 0]
    /\ job = JobIdle
    /\ replay = ReplayIdle

\* startup_event (main.py:546-554): init_redis, init_postgres, init_alpaca
\* each leave their handle None on failure; setup_scheduler starts the jobs.
Startup ==
    /\ loop = Boot
    /\ redis_client' \in BOOLEAN
    /\ postgres_conn' \in BOOLEAN
    /\ alpaca_api' \in BOOLEAN
    /\ LET s == setup_scheduler(scheduler_running, bot.jobs) IN
        /\ scheduler_running' = s.running
        /\ bot' = [bot EXCEPT !.jobs = s.jobs]
    /\ loop' = Idle
    /\ UNCHANGED <<cyc, ex, man, trades, trades_index, pg_broken,
                   mirror, broker_orders, broker_pos, job, replay>>

\* ------------------------------------------------------ position reconciler
\* Variant: the handler logs without raising and returns [] (main.py:294).
get_portfolio_positions_ReturnsEmpty(list_raises) ==
    IF ~alpaca_api \/ list_raises THEN [kind |-> "ok", qty |-> [s \in Symbols |-> 0]]
    ELSE [kind |-> "ok", qty |-> broker_pos]

\* get_portfolio_positions (main.py:263-294): the broker's open positions,
\* [] without a broker handle; when list_positions raises, the handler.
get_portfolio_positions(list_raises) ==
    IF ~alpaca_api THEN [kind |-> "ok", qty |-> [s \in Symbols |-> 0]]
    ELSE IF list_raises THEN [kind |-> Handler("ok"), qty |-> [s \in Symbols |-> 0]]
    ELSE [kind |-> "ok", qty |-> broker_pos]

HasRow(m, symbol) == \E i \in 1..Len(m) : m[i].symbol = symbol

\* Variant: a plain INSERT, without the ON CONFLICT clause.
UpsertRow_PlainInsert(m, symbol, quantity) ==
    Append(m, [symbol |-> symbol, quantity |-> quantity])

\* INSERT ... ON CONFLICT (symbol) DO UPDATE SET quantity = EXCLUDED.quantity,
\* ... (main.py:304-315): the row of the symbol takes the new values, a
\* symbol without a row gets one.  Of the columns, the model keeps symbol and
\* quantity; the statement sets the other columns in the same way.
UpsertRow(m, symbol, quantity) ==
    IF HasRow(m, symbol)
    THEN [i \in 1..Len(m) |-> IF m[i].symbol = symbol
                              THEN [m[i] EXCEPT !.quantity = quantity] ELSE m[i]]
    ELSE Append(m, [symbol |-> symbol, quantity |-> quantity])

\* "for position in positions" (main.py:303): list_positions returns the
\* open positions only, here in the order of PositionOrder.
PositionOrder == <<"X", "Y">>

RECURSIVE Upsert(_, _, _)
\* Variant: the table is made equal to the returned list, the rows of the
\* instruments that are not in it are deleted.
Upsert_DeletesAbsent(m, positions, k) ==
    LET kept == SelectSeq(m, LAMBDA r : positions[r.symbol] # 0)
        a == IF positions["X"] # 0 THEN UpsertRow(kept, "X", positions["X"]) ELSE kept
    IN  IF positions["Y"] # 0 THEN UpsertRow(a, "Y", positions["Y"]) ELSE a

Upsert(m, positions, k) ==
    IF k > Len(PositionOrder) THEN m
    ELSE Upsert(IF positions[PositionOrder[k]] # 0
                THEN UpsertRow(m, PositionOrder[k], positions[PositionOrder[k]])
                ELSE m,
                positions, k + 1)

\* update_portfolio_positions (main.py:296-321): outcome "ok" when it returns,
\* "raise" when an exception leaves it; the rows are committed before the
\* logger.info("Portfolio positions updated", count=...) call.  committed
\* says that the commit of line 319 happened, positions is the list written,
\* listed that list_positions returned a list, store_up that the store was
\* reached and answering.
update_portfolio_positions(list_raises, pg_raises) ==
    LET got == get_portfolio_positions(list_raises)
        skip(outcome, broken) ==
            [outcome |-> outcome, mirror |-> mirror, pg_broken |-> broken,
             committed |-> FALSE, positions |-> NoPositions,
             listed |-> alpaca_api /\ got.kind = "ok",
             store_up |-> got.kind = "ok" /\ postgres_conn /\ ~pg_raises]
    IN
    IF got.kind = "raise" THEN skip(Handler("ok"), pg_broken)
    ELSE IF ~postgres_conn THEN skip("ok", pg_broken)
    ELSE IF pg_broken \/ pg_raises THEN skip(Handler("ok"), TRUE)
    ELSE [outcome |-> AfterKwLog("ok", "ok"), mirror |-> Upsert(mirror, got.qty, 1),
          pg_broken |-> pg_broken, committed |-> TRUE, positions |-> got.qty,
          listed |-> alpaca_api, store_up |-> TRUE]

\* A row that existed with another quantity is about to be overwritten.
Overwrites(m, positions) ==
    \E i \in 1..Len(m) :
        positions[m[i].symbol] # 0 /\ m[i].quantity # positions[m[i].symbol]

\* The scheduled job 'portfolio_update' (main.py:402-408).
ReconJob ==
    /\ scheduler_running /\ loop = Idle /\ job.pc = "idle"
    /\ \E list_raises \in BOOLEAN, pg_raises \in BOOLEAN :
        LET u == update_portfolio_positions(list_raises, pg_raises) IN
        /\ mirror' = u.mirror
        /\ pg_broken' = u.pg_broken
        /\ job' = [pc |-> IF u.outcome = "raise" THEN "escaped" ELSE "returned",
                   committed |-> u.committed, positions |-> u.positions,
                   overwrote |-> u.committed /\ Overwrites(mirror, u.positions),
                   listed |-> u.listed, store_up |-> u.store_up]
    /\ loop' = Recon
    /\ UNCHANGED <<redis_client, postgres_conn, alpaca_api, scheduler_running, bot,
                   cyc, ex, man, trades, trades_index, broker_orders, broker_pos, replay>>

\* The job's coroutine is over: it returned, or its exception reached the
\* scheduler's job runner.
ReconJobEnd ==
    /\ loop = Recon /\ job.pc # "idle"
    /\ job' = JobIdle
    /\ loop' = Idle
    /\ UNCHANGED <<redis_client, postgres_conn, alpaca_api, scheduler_running, bot,
                   cyc, ex, man, trades, trades_index, pg_broken, mirror,
                   broker_orders, broker_pos, replay>>

\* ------------------------------------------------------------ decision cycle
\* symbol_config.get("sentiment_threshold", config.sentiment_threshold)
threshold_of(e) ==
    IF e.sentiment_threshold # Absent THEN e.sentiment_threshold
    ELSE sentiment_threshold_default

\* Variant: the instrument's own cap is ignored.
max_position_size_of_DefaultOnly(e) == max_position_size_default

\* symbol_config.get("max_position_size", config.max_position_size)
max_position_size_of(e) ==
    IF e.max_position_size # Absent THEN e.max_position_size
    ELSE max_position_size_default

\* Variant: the comparison with the threshold is not strict.
Above_Inclusive(score, e) == ~RLt(score, Rat(threshold_of(e), 1))

\* sentiment_score > sentiment_threshold (main.py:353)
Above(score, e) == RGt(score, Rat(threshold_of(e), 1))

\* sentiment_score < -sentiment_threshold (main.py:366)
Below(score, e) == RLt(score, Rat(0 - threshold_of(e), 1))

\* Variant: the quotient is rounded to the nearest integer.
SizedQuantity_Rounds(cap, price) == (2 * cap + price) \div (2 * price)

\* int(max_position_size / current_price) (main.py:361), for a price > 0
SizedQuantity(cap, price) == cap \div price

\* The BUY branch is the only one that asks the price oracle (main.py:353-358).
NeedsPrice(score, e, held) == Above(score, e) /\ ~held

\* The trading logic of one instrument (main.py:349-372): the order the
\* cycle hands to execute_trade, or NONE.
Decide(score, e, held, position_qty, price) ==
    LET none == [action |-> "NONE", quantity |-> 0] IN
    IF Above(score, e)
    THEN IF ~held /\ price > 0 /\ SizedQuantity(max_position_size_of(e), price) > 0
         THEN [action |-> "BUY",
               quantity |-> SizedQuantity(max_position_size_of(e), price)]
         ELSE none
    ELSE IF Below(score, e)
    THEN IF held /\ position_qty > 0
         THEN [action |-> "SELL", quantity |-> position_qty]
         ELSE none
    ELSE none

\* The coroutine t may take a step: it holds the loop, or it is suspended
\* and the loop is free.
CycHolds == loop = Cycle \/ (loop = Idle /\ cyc.suspended)
ExHolds(t) == loop = t \/ (loop = Idle /\ ex[t].suspended)

\* The outer "except Exception" of run_trading_bot (main.py:385-386).
OuterFail(c) == [c EXCEPT !.pc = IF Handler("returned") = "raise" THEN "escaped" ELSE "returned",
                          !.suspended = FALSE]

\* The next iteration of "for symbol in symbols", or the code after the loop.
CycNext(c) ==
    IF c.idx < Len(c.config_data.symbols)
    THEN [c EXCEPT !.idx = @ + 1, !.pc = "instrument", !.suspended = FALSE]
    ELSE [c EXCEPT !.pc = "reconcile", !.suspended = FALSE]

\* The per-instrument "except Exception ... continue" (main.py:376-378).
InnerFail(c) ==
    LET f == [c EXCEPT !.failed = @ \cup {c.config_data.symbols[c.idx]}] IN
    IF Handler("continue") = "raise" THEN OuterFail(f) ELSE CycNext(f)

\* await asyncio.sleep(1) (main.py:374), then the next iteration.
Sleep(c) == [CycNext(c) EXCEPT !.suspended = "sleep" \in YieldPoints]

\* The code after "await execute_trade(...)" in the cycle (main.py:363-364,
\* 371-374): the result is ignored, logger.info(..., symbol=, sentiment=).
AfterExecute(c, result) ==
    IF result = "raise" THEN InnerFail(c)
    ELSE IF AfterKwLog("sleep", "continue") = "raise" THEN
        IF Handler("continue") = "raise" THEN OuterFail([c EXCEPT !.failed = @ \cup {c.config_data.symbols[c.idx]}])
        ELSE CycNext(c)
    ELSE Sleep(c)

LoopAfter(c) == IF c.suspended THEN Idle ELSE Cycle

\* The scheduler fires the job 'trading_bot' (main.py:393-399).
CycleFire ==
    /\ scheduler_running /\ loop = Idle /\ cyc.pc = "idle"
    /\ cyc' = [CycIdle EXCEPT !.pc = "load"]
    /\ loop' = Cycle
    /\ UNCHANGED <<redis_client, postgres_conn, alpaca_api, scheduler_running, bot,
                   ex, man, trades, trades_index, pg_broken, mirror, broker_orders,
                   broker_pos, job, replay>>

\* main.py:329-335: load the configuration, return when no symbol is listed.
CycleLoadConfig ==
    /\ CycHolds /\ cyc.pc = "load"
    /\ \E readable \in BOOLEAN, doc \in ConfigDocs :
        LET cfg == load_trading_config(readable, doc) IN
        /\ ~readable => doc = DefaultConfig
        /\ cyc' = IF cfg.kind = "raise" THEN OuterFail([cyc EXCEPT !.loaded = "unreadable"])
                  ELSE IF cfg.doc.symbols = <<>>
                  THEN [cyc EXCEPT !.pc = "returned",
                                   !.loaded = IF readable THEN "file" ELSE "unreadable"]
                  ELSE [cyc EXCEPT !.pc = "positions", !.config_data = cfg.doc,
                                   !.loaded = IF readable THEN "file" ELSE "unreadable"]
    /\ loop' = Cycle
    /\ UNCHANGED <<redis_client, postgres_conn, alpaca_api, scheduler_running, bot,
                   ex, man, trades, trades_index, pg_broken, mirror, broker_orders,
                   broker_pos, job, replay>>

\* main.py:337-339: the position snapshot of the cycle; snapshot says
\* whether list_positions answered.
CyclePositions ==
    /\ CycHolds /\ cyc.pc = "positions"
    /\ \E list_raises \in BOOLEAN :
        LET got == get_portfolio_positions(list_raises)
            fetched == [cyc EXCEPT !.snapshot = IF alpaca_api /\ list_raises
                                                 THEN "failed" ELSE "ok"]
        IN  cyc' = IF got.kind = "raise" THEN OuterFail(fetched)
                   ELSE [fetched EXCEPT !.pc = "instrument", !.positions = got.qty,
                                        !.idx = 1]
    /\ loop' = Cycle
    /\ UNCHANGED <<redis_client, postgres_conn, alpaca_api, scheduler_running, bot,
                   ex, man, trades, trades_index, pg_broken, mirror, broker_orders,
                   broker_pos, job, replay>>

\* Variant: the None test is missing, the comparison of None with the
\* threshold raises into the per-instrument handler.
OnNoSignal_Fails(c) == InnerFail(c)

\* "if sentiment_score is None: continue" (main.py:346-347).
OnNoSignal(c) == CycNext(c)

\* Variant: the execution is started as a task of its own
\* (asyncio.create_task), the loop body goes on without waiting for it.
AwaitExecute_Spawns(c, d) == Sleep([c EXCEPT !.decision = d.action])

\* "await execute_trade(symbol, action, quantity, sentiment_score)"
\* (main.py:363, 370): the loop body waits for the execution.
AwaitExecute(c, d) ==
    [c EXCEPT !.pc = "executing", !.decision = d.action, !.suspended = FALSE]

\* The loop body after "sentiment_score = await aggregate_sentiment(symbol)"
\* up to the call of execute_trade (main.py:345-372), for the aggregation
\* result r: the cycle's next locals and the order handed to execute_trade.
Decision(c, symbol, r, price_raises, price) ==
    LET e == symbol_config(c.config_data, symbol)
        held == c.positions[symbol] # 0
        d == Decide(r.weighted_score, e, held, c.positions[symbol], price)
        none == [action |-> "NONE", quantity |-> 0]
        seen == [c EXCEPT !.symbol = symbol, !.agg = r, !.decision = "NONE",
                          !.current_price = 0]
        done == [seen EXCEPT !.processed = @ \cup {symbol}]
        priced == [done EXCEPT !.current_price =
                        IF NeedsPrice(r.weighted_score, e, held) THEN price ELSE 0]
    IN  IF r.kind = "raise" THEN [cyc |-> InnerFail(seen), order |-> none]
        ELSE IF r.kind = "none" THEN [cyc |-> OnNoSignal(done), order |-> none]
        ELSE IF NeedsPrice(r.weighted_score, e, held) /\ price_raises
        THEN [cyc |-> InnerFail(done), order |-> none]
        ELSE IF d.action = "NONE" THEN [cyc |-> Sleep(priced), order |-> none]
        ELSE [cyc |-> AwaitExecute(priced, d), order |-> d]

\* The price oracle is read only on the BUY branch; inputs that are not read
\* are fixed, so that they add no transition.
PriceInputs(c, symbol, r, price_raises, price) ==
    LET e == symbol_config(c.config_data, symbol)
        held == c.positions[symbol] # 0
    IN  /\ (r.kind # "score" \/ ~NeedsPrice(r.weighted_score, e, held))
                => (~price_raises /\ price = 0)
        /\ price_raises => price = 0

\* The call execute_trade(symbol, action, quantity, sentiment_score).
CallExecute(symbol, order) ==
    IF order.action = "NONE" THEN ex
    ELSE [ex EXCEPT ![Cycle] = [ExOff EXCEPT !.pc = "start", !.symbol = symbol,
                                             !.side = order.action,
                                             !.quantity = order.quantity,
                                             !.log0 = Len(trades)]]

\* One iteration of the loop up to the call of execute_trade (main.py:342-372).
CycleInstrument ==
    /\ CycHolds /\ cyc.pc = "instrument"
    /\ \E readable \in BOOLEAN, doc \in ConfigDocs, redis_raises \in BOOLEAN,
          obs \in ObsScenarios :
        /\ ~readable => doc = DefaultConfig
        /\ \E r \in {aggregate_sentiment(cyc.config_data.symbols[cyc.idx], readable, doc,
                                         redis_client, redis_raises, obs)},
              price_raises \in BOOLEAN, price \in Prices \cup {0} :
            LET symbol == cyc.config_data.symbols[cyc.idx] IN
            /\ ~r.scanned => obs = NoObs
            /\ PriceInputs(cyc, symbol, r, price_raises, price)
            /\ \E out \in {Decision([cyc EXCEPT !.obs = IF r.scanned THEN obs ELSE NoObs],
                                     symbol, r, price_raises, price)} :
                /\ cyc' = out.cyc
                /\ ex' = CallExecute(symbol, out.order)
    /\ loop' = LoopAfter(cyc')
    /\ UNCHANGED <<redis_client, postgres_conn, alpaca_api, scheduler_running, bot,
                   man, trades, trades_index, pg_broken, mirror, broker_orders,
                   broker_pos, job, replay>>

\* main.py:380-383: the reconciliation pass that ends the cycle.
CycleReconcile ==
    /\ CycHolds /\ cyc.pc = "reconcile"
    /\ \E list_raises \in BOOLEAN, pg_raises \in BOOLEAN :
        LET u == update_portfolio_positions(list_raises, pg_raises) IN
        /\ mirror' = u.mirror
        /\ pg_broken' = u.pg_broken
        /\ cyc' = IF u.outcome = "raise" THEN OuterFail([cyc EXCEPT !.reconciled = TRUE])
                  ELSE [cyc EXCEPT !.pc = "returned", !.reconciled = TRUE, !.suspended = FALSE]
    /\ loop' = Cycle
    /\ UNCHANGED <<redis_client, postgres_conn, alpaca_api, scheduler_running, bot,
                   ex, man, trades, trades_index, broker_orders, broker_pos, job, replay>>

\* run_trading_bot is over: it returned, or its exception reached the
\* scheduler's job runner; the job is idle until its next run.
CycleReturn ==
    /\ loop = Cycle /\ cyc.pc \in {"returned", "escaped"}
    /\ cyc' = CycIdle
    /\ loop' = Idle
    /\ UNCHANGED <<redis_client, postgres_conn, alpaca_api, scheduler_running, bot,
                   ex, man, trades, trades_index, pg_broken, mirror, broker_orders,
                   broker_pos, job, replay>>

\* ------------------------------------------------------------ order executor
\* The step pc of execute_trade ends; the loop is freed when it is a yield point.
ExLoopAfter(t, step) == IF step \in YieldPoints THEN Idle ELSE t
ExStep(t, step, next) == [ex EXCEPT ![t] = [next EXCEPT !.suspended = step \in YieldPoints]]

\* execute_trade leaves through its "except Exception" handler (main.py:241-243).
ExFail(x) == [x EXCEPT !.pc = "return", !.result = Handler("none")]

\* execute_trade logs with keyword arguments and returns None (main.py:205-206,
\* 217-219).
ExLogNone(x) == [x EXCEPT !.pc = "return", !.result = AfterKwLog("none", "none")]

\* main.py:195-197: no broker handle, return None.
ExecStart(t) ==
    /\ ExHolds(t) /\ ex[t].pc = "start"
    /\ ex' = ExStep(t, "start",
                    IF ~alpaca_api THEN [ex[t] EXCEPT !.pc = "return", !.result = "none"]
                    ELSE [ex[t] EXCEPT !.pc = "price"])
    /\ loop' = ExLoopAfter(t, "start")
    /\ UNCHANGED <<redis_client, postgres_conn, alpaca_api, scheduler_running, bot,
                   cyc, man, trades, trades_index, pg_broken, mirror, broker_orders,
                   broker_pos, job, replay>>

\* Variant: the test "if current_price == 0" is missing.
ExecPrice_NoZeroTest(t) ==
    /\ ExHolds(t) /\ ex[t].pc = "price"
    /\ \E price_raises \in BOOLEAN, price \in Prices \cup {0} :
        /\ price_raises => price = 0
        /\ ex' = ExStep(t, "price",
                        IF price_raises THEN ExFail(ex[t])
                        ELSE [ex[t] EXCEPT !.pc = "cap", !.current_price = price])
    /\ loop' = ExLoopAfter(t, "price")
    /\ UNCHANGED <<redis_client, postgres_conn, alpaca_api, scheduler_running, bot,
                   cyc, man, trades, trades_index, pg_broken, mirror, broker_orders,
                   broker_pos, job, replay>>

\* main.py:200-206: the price oracle; 0 stands for a missing price, and a
\* price that cannot be used in the arithmetic of line 209 is a raise.
ExecPrice(t) ==
    /\ ExHolds(t) /\ ex[t].pc = "price"
    /\ \E price_raises \in BOOLEAN, price \in Prices \cup {0} :
        /\ price_raises => price = 0
        /\ ex' = ExStep(t, "price",
                        IF price_raises THEN ExFail(ex[t])
                        ELSE IF price = 0 THEN ExLogNone(ex[t])
                        ELSE [ex[t] EXCEPT !.pc = "cap", !.current_price = price])
    /\ loop' = ExLoopAfter(t, "price")
    /\ UNCHANGED <<redis_client, postgres_conn, alpaca_api, scheduler_running, bot,
                   cyc, man, trades, trades_index, pg_broken, mirror, broker_orders,
                   broker_pos, job, replay>>

\* Variant: the check compares the quantity, not the notional, with the cap.
ExceedsCap_IgnoresPrice(quantity, current_price, cap) == quantity > cap

\* total_amount > max_position_size (main.py:216)
ExceedsCap(quantity, current_price, cap) == quantity * current_price > cap

\* main.py:208-219: the notional check against the instrument's cap.
ExecCapCheck(t) ==
    /\ ExHolds(t) /\ ex[t].pc = "cap"
    /\ \E readable \in BOOLEAN, doc \in ConfigDocs :
        LET cfg == load_trading_config(readable, doc)
            e == symbol_config(cfg.doc, ex[t].symbol)
            cap == max_position_size_of(e)
            x == [ex[t] EXCEPT !.entry_cap = e.max_position_size, !.max_position_size = cap]
        IN  ex' = ExStep(t, "cap",
                         IF cfg.kind = "raise" THEN ExFail(ex[t])
                         ELSE IF ExceedsCap(x.quantity, x.current_price, cap)
                         THEN ExLogNone(x)
                         ELSE [x EXCEPT !.pc = "submit"])
    /\ loop' = ExLoopAfter(t, "cap")
    /\ UNCHANGED <<redis_client, postgres_conn, alpaca_api, scheduler_running, bot,
                   cyc, man, trades, trades_index, pg_broken, mirror, broker_orders,
                   broker_pos, job, replay>>

\* Variant: a failed submission is recorded in the trades table.
ExecSubmit_RecordsFailure(t) ==
    /\ ExHolds(t) /\ ex[t].pc = "submit"
    /\ \E accepted \in (IF Len(broker_orders) < MaxOrders THEN BOOLEAN ELSE {FALSE}) :
        IF accepted
        THEN /\ broker_orders' = Append(broker_orders,
                    [symbol |-> ex[t].symbol, side |-> ex[t].side, qty |-> ex[t].quantity,
                     status |-> "new"])
             /\ ex' = ExStep(t, "submit", [ex[t] EXCEPT !.pc = "poll", !.attempts = @ + 1,
                                                       !.order_id = Len(broker_orders) + 1])
             /\ trades' = trades
        ELSE /\ broker_orders' = broker_orders
             /\ ex' = ExStep(t, "submit", [ExFail(ex[t]) EXCEPT !.attempts = @ + 1])
             /\ trades' = IF postgres_conn /\ Len(trades) < MaxTrades
                          THEN Append(trades, [symbol |-> ex[t].symbol, side |-> ex[t].side,
                                               quantity |-> ex[t].quantity,
                                               alpaca_order_id |-> 0, status |-> "REJECTED"])
                          ELSE trades
    /\ loop' = ExLoopAfter(t, "submit")
    /\ UNCHANGED <<redis_client, postgres_conn, alpaca_api, scheduler_running, bot,
                   cyc, man, trades_index, pg_broken, mirror, broker_pos, job, replay>>

\* Variant: a failed submission is tried again.
ExecSubmit_Retries(t) ==
    /\ ExHolds(t) /\ ex[t].pc = "submit"
    /\ \E accepted \in (IF Len(broker_orders) < MaxOrders /\ ex[t].attempts > 0
                         THEN BOOLEAN ELSE {FALSE}) :
        IF accepted
        THEN /\ broker_orders' = Append(broker_orders,
                    [symbol |-> ex[t].symbol, side |-> ex[t].side, qty |-> ex[t].quantity,
                     status |-> "new"])
             /\ ex' = ExStep(t, "submit", [ex[t] EXCEPT !.pc = "poll", !.attempts = @ + 1,
                                                       !.order_id = Len(broker_orders) + 1])
        ELSE /\ broker_orders' = broker_orders
             /\ ex' = ExStep(t, "submit",
                             IF ex[t].attempts < 2 THEN [ex[t] EXCEPT !.attempts = @ + 1]
                             ELSE [ExFail(ex[t]) EXCEPT !.attempts = @ + 1])
    /\ loop' = ExLoopAfter(t, "submit")
    /\ UNCHANGED <<redis_client, postgres_conn, alpaca_api, scheduler_running, bot,
                   cyc, man, trades, trades_index, pg_broken, mirror, broker_pos,
                   job, replay>>

\* main.py:221-228: alpaca_api.submit_order; the broker accepts the order
\* and gives it an id, or the call raises.
ExecSubmit(t) ==
    /\ ExHolds(t) /\ ex[t].pc = "submit"
    /\ \E accepted \in (IF Len(broker_orders) < MaxOrders THEN BOOLEAN ELSE {FALSE}) :
        IF accepted
        THEN /\ broker_orders' = Append(broker_orders,
                    [symbol |-> ex[t].symbol, side |-> ex[t].side, qty |-> ex[t].quantity,
                     status |-> "new"])
             /\ ex' = ExStep(t, "submit", [ex[t] EXCEPT !.pc = "poll", !.attempts = @ + 1,
                                                       !.order_id = Len(broker_orders) + 1])
        ELSE /\ broker_orders' = broker_orders
             /\ ex' = ExStep(t, "submit", [ExFail(ex[t]) EXCEPT !.attempts = @ + 1])
    /\ loop' = ExLoopAfter(t, "submit")
    /\ UNCHANGED <<redis_client, postgres_conn, alpaca_api, scheduler_running, bot,
                   cyc, man, trades, trades_index, pg_broken, mirror, broker_pos, job, replay>>

\* Variant: get_order is called again while the order is not filled, up to
\* three times.
ExecPoll_UntilFilled(t) ==
    /\ ExHolds(t) /\ ex[t].pc = "poll"
    /\ \E poll_raises \in BOOLEAN :
        ex' = ExStep(t, "poll",
                     IF poll_raises THEN ExFail([ex[t] EXCEPT !.polls = @ + 1])
                     ELSE IF broker_orders[ex[t].order_id].status = "new" /\ ex[t].polls < 2
                     THEN [ex[t] EXCEPT !.polls = @ + 1]
                     ELSE [ex[t] EXCEPT !.pc = "store", !.polls = @ + 1,
                                        !.order_status = broker_orders[ex[t].order_id].status])
    /\ loop' = ExLoopAfter(t, "poll")
    /\ UNCHANGED <<redis_client, postgres_conn, alpaca_api, scheduler_running, bot,
                   cyc, man, trades, trades_index, pg_broken, mirror, broker_orders,
                   broker_pos, job, replay>>

\* main.py:230-231: one alpaca_api.get_order(order.id).
ExecPoll(t) ==
    /\ ExHolds(t) /\ ex[t].pc = "poll"
    /\ \E poll_raises \in BOOLEAN :
        ex' = ExStep(t, "poll",
                     IF poll_raises THEN ExFail([ex[t] EXCEPT !.polls = @ + 1])
                     ELSE [ex[t] EXCEPT !.pc = "store", !.polls = @ + 1,
                                        !.order_status = broker_orders[ex[t].order_id].status])
    /\ loop' = ExLoopAfter(t, "poll")
    /\ UNCHANGED <<redis_client, postgres_conn, alpaca_api, scheduler_running, bot,
                   cyc, man, trades, trades_index, pg_broken, mirror, broker_orders,
                   broker_pos, job, replay>>

HasRecord(log, id) == \E i \in 1..Len(log) : log[i].alpaca_order_id = id

\* store_trade (main.py:245-260): a plain INSERT with status 'FILLED' and a
\* commit; of the columns, the model keeps symbol, side, quantity,
\* alpaca_order_id and status.  outcome is "ok" when the function returns,
\* "raise" when an exception leaves it.  unique says that the table rejects a
\* second row for an order id.  A failed statement leaves the connection in a
\* failed transaction: nothing rolls it back.
store_trade(symbol, side, quantity, alpaca_order_id, pg_raises, unique) ==
    IF ~postgres_conn
    THEN [outcome |-> "ok", trades |-> trades, pg_broken |-> pg_broken]
    ELSE IF pg_broken \/ pg_raises \/ (unique /\ HasRecord(trades, alpaca_order_id))
    THEN [outcome |-> Handler("ok"), trades |-> trades, pg_broken |-> TRUE]
    ELSE [outcome |-> AfterKwLog("ok", "ok"),
          trades |-> Append(trades, [symbol |-> symbol, side |-> side, quantity |-> quantity,
                                     alpaca_order_id |-> alpaca_order_id,
                                     status |-> "FILLED"]),
          pg_broken |-> pg_broken]

\* The index of the trades table is outside the sources: it is one of the
\* two for the whole run, and becomes known when it first matters.
IndexChoices(id) ==
    IF postgres_conn /\ HasRecord(trades, id) /\ trades_index = "unknown"
    THEN {"unique", "plain"} ELSE {trades_index}

\* main.py:233-239: await store_trade(...), logger.info(..., order_id=order.id),
\* return order_status.
ExecStore(t) ==
    /\ ExHolds(t) /\ ex[t].pc = "store"
    /\ \E pg_raises \in BOOLEAN, index \in IndexChoices(ex[t].order_id) :
        LET st == store_trade(ex[t].symbol, ex[t].side, ex[t].quantity, ex[t].order_id,
                              pg_raises \/ Len(trades) >= MaxTrades, index = "unique")
        IN  /\ trades' = st.trades
            /\ trades_index' = index
            /\ pg_broken' = st.pg_broken
            /\ ex' = ExStep(t, "store",
                            IF st.outcome = "raise" THEN ExFail(ex[t])
                            ELSE [ex[t] EXCEPT !.pc = "return",
                                               !.result = AfterKwLog("status", "none")])
    /\ loop' = ExLoopAfter(t, "store")
    /\ UNCHANGED <<redis_client, postgres_conn, alpaca_api, scheduler_running, bot,
                   cyc, man, mirror, broker_orders, broker_pos, job, replay>>

\* Variant: the endpoint answers with the success body whatever
\* execute_trade returned.
EndpointResponse_AlwaysOk(result) == "200"

\* execute_trade_endpoint (main.py:431-454) after execute_trade: a truthy
\* result gives the success body; None raises HTTPException(400) inside the
\* try, which "except Exception" catches; the handler answers 500 (an
\* HTTPException(500), or the logger's TypeError as an unhandled error).
EndpointResponse(result) ==
    IF result = "status" THEN "200"
    ELSE IF Handler("http500") = "raise" THEN "500" ELSE "500"

\* execute_trade returns to its caller (or raises into it).
ExecReturn(t) ==
    /\ ExHolds(t) /\ ex[t].pc = "return"
    /\ ex' = [ex EXCEPT ![t] = ExOff]
    /\ IF t = Cycle
       THEN /\ cyc' = AfterExecute(cyc, ex[t].result)
            /\ loop' = LoopAfter(cyc')
            /\ man' = man
       ELSE /\ man' = [man EXCEPT ![t].pc = "responded",
                                  ![t].response = EndpointResponse(ex[t].result),
                                  ![t].exec = ex[t]]
            /\ loop' = t
            /\ cyc' = cyc
    /\ UNCHANGED <<redis_client, postgres_conn, alpaca_api, scheduler_running, bot,
                   trades, trades_index, pg_broken, mirror, broker_orders,
                   broker_pos, job, replay>>

\* ------------------------------------------------------------ manual trades
\* A POST /trade request (TradeRequest, main.py:55-59) whose handler the
\* event loop starts: it calls execute_trade (main.py:435).
Requests == {[symbol |-> "X", side |-> "BUY", quantity |-> 2]}

ManualStart(m) ==
    /\ loop = Idle /\ man[m].pc = "idle"
    \* the requests are alike: a new one takes the first free handler
    /\ \A i \in 1..NumManual : (i < m[2]) => man[Manual(i)].pc # "idle"
    /\ man' = [man EXCEPT ![m].pc = "running"]
    /\ \E r \in Requests :
        ex' = [ex EXCEPT ![m] = [ExOff EXCEPT !.pc = "start", !.symbol = r.symbol,
                                             !.side = r.side, !.quantity = r.quantity,
                                             !.log0 = Len(trades)]]
    /\ loop' = m
    /\ UNCHANGED <<redis_client, postgres_conn, alpaca_api, scheduler_running, bot,
                   cyc, trades, trades_index, pg_broken, mirror, broker_orders,
                   broker_pos, job, replay>>

\* The handler ends: the response is sent and the loop is free.
ManualClose(m) ==
    /\ loop = m /\ man[m].pc = "responded"
    /\ man' = [man EXCEPT ![m] = ManIdle]
    /\ loop' = Idle
    /\ UNCHANGED <<redis_client, postgres_conn, alpaca_api, scheduler_running, bot,
                   cyc, ex, trades, trades_index, pg_broken, mirror, broker_orders,
                   broker_pos, job, replay>>

\* ------------------------------------------------------------------ broker
\* The broker fills an accepted market order: the position changes.
BrokerFill ==
    /\ \E i \in 1..Len(broker_orders) :
        LET o == broker_orders[i] IN
        /\ o.status = "new"
        /\ broker_orders' = [broker_orders EXCEPT ![i].status = "filled"]
        /\ broker_pos' = [broker_pos EXCEPT ![o.symbol] =
                            IF o.side = "BUY" THEN @ + o.qty ELSE @ - o.qty]
    /\ UNCHANGED <<redis_client, postgres_conn, alpaca_api, scheduler_running, bot,
                   loop, cyc, ex, man, trades, trades_index, pg_broken, mirror, job, replay>>

\* store_trade is called again for an order the broker issued (the
\* persistence step of an execution replayed with the same order id).
ReplayStoreTrade ==
    /\ loop = Idle /\ replay.pc = "idle" /\ Len(trades) < MaxTrades
    /\ \E i \in 1..Len(broker_orders), pg_raises \in BOOLEAN :
       \E index \in IndexChoices(i) :
        LET o == broker_orders[i]
            st == store_trade(o.symbol, o.side, o.qty, i, pg_raises, index = "unique")
        IN  /\ trades' = st.trades
            /\ trades_index' = index
            /\ pg_broken' = st.pg_broken
            /\ replay' = [pc |-> "done", recorded |-> HasRecord(trades, i),
                          store_ok |-> ~pg_raises /\ ~pg_broken, outcome |-> st.outcome]
    /\ loop' = Replayer
    /\ UNCHANGED <<redis_client, postgres_conn, alpaca_api, scheduler_running, bot,
                   cyc, ex, man, mirror, broker_orders, broker_pos, job>>

\* The repeated call is over: it returned or raised into its caller.
ReplayReturn ==
    /\ loop = Replayer /\ replay.pc = "done"
    /\ replay' = ReplayIdle
    /\ loop' = Idle
    /\ UNCHANGED <<redis_client, postgres_conn, alpaca_api, scheduler_running, bot,
                   cyc, ex, man, trades, trades_index, pg_broken, mirror,
                   broker_orders, broker_pos, job>>

Next ==
    \/ Startup
    \/ ReconJob
    \/ ReconJobEnd
    \/ CycleFire
    \/ CycleLoadConfig
    \/ CyclePositions
    \/ CycleInstrument
    \/ CycleReconcile
    \/ CycleReturn
    \/ \E t \in Callers : ExecStart(t)
    \/ \E t \in Callers : ExecPrice(t)
    \/ \E t \in Callers : ExecCapCheck(t)
    \/ \E t \in Callers : ExecSubmit(t)
    \/ \E t \in Callers : ExecPoll(t)
    \/ \E t \in Callers : ExecStore(t)
    \/ \E t \in Callers : ExecReturn(t)
    \/ \E m \in Manuals : ManualStart(m)
    \/ \E m \in Manuals : ManualClose(m)
    \/ BrokerFill
    \/ ReplayStoreTrade
    \/ ReplayReturn

Spec == Init /\ [][Next]_vars

\* ------------------------------------------------- the decision code alone
\* In Spec the aggregator never hands a score to the loop body: line 160
\* raises.  SpecDecision applies the loop body after the aggregation
\* (main.py:345-372, the operator Decision) to a score, a configuration, a
\* position snapshot and a price drawn from the sets below.
DecisionScores ==
    {Rat(k, 1) : k \in {-7, -6, -5, 0, 5, 6, 7}} \cup {Rat(43, 7)}

DecisionDocs ==
    {d \in ConfigDocs : d.symbols # <<>>} \cup
    { [symbols |-> <<"X", "Y">>,
       entry |-> [s \in Symbols |->
                    IF s = "X" THEN Entry(TRUE, FALSE, <<>>, Absent, 20000)
                    ELSE Entry(TRUE, FALSE, <<>>, 5, 3000)],
       sentiment_weights |-> DefaultWeights] }

DecisionQuantities == {-3, 0, 40}

DecisionPrices == {0, 334, 4000, 6000}

\* The locals of run_trading_bot when the loop is at one of its instruments.
InitDecision ==
    /\ redis_client = TRUE /\ postgres_conn = TRUE /\ alpaca_api = TRUE
    /\ scheduler_running = TRUE
    /\ bot = BotOn
    /\ loop = Cycle
    /\ \E doc \in DecisionDocs, i \in 1..2, qx \in DecisionQuantities,
          qy \in DecisionQuantities :
        /\ cyc = [CycIdle EXCEPT !.pc = "instrument", !.loaded = "file",
                                 !.snapshot = "ok",
                                 !.config_data = doc, !.idx = i,
                                 !.positions = [s \in Symbols |-> IF s = "X" THEN qx ELSE qy]]
        /\ broker_pos = cyc.positions
    /\ ex = [t \in Callers |-> ExOff]
    /\ man = [m \in Manuals |-> ManIdle]
    /\ trades = <<>>
    /\ trades_index = "unknown"
    /\ pg_broken = FALSE
    /\ mirror = <<>>
    /\ broker_orders = <<>>
    /\ job = JobIdle
    /\ replay = ReplayIdle

\* sentiment_score = <a float>: what line 161 hands to the loop body.
Returned(score) ==
    [NoAgg EXCEPT !.kind = "score", !.at = "data", !.scanned = TRUE,
                  !.computed = TRUE, !.weighted_score = score]

DecisionStep ==
    /\ CycHolds /\ cyc.pc = "instrument" /\ cyc.agg.at = "idle"
    /\ \E score \in DecisionScores, price_raises \in BOOLEAN, price \in DecisionPrices :
        LET symbol == cyc.config_data.symbols[cyc.idx]
            out == Decision(cyc, symbol, Returned(score), price_raises, price)
        IN  /\ PriceInputs(cyc, symbol, Returned(score), price_raises, price)
            /\ cyc' = out.cyc
            /\ ex' = CallExecute(symbol, out.order)
    /\ loop' = LoopAfter(cyc')
    /\ UNCHANGED <<redis_client, postgres_conn, alpaca_api, scheduler_running, bot,
                   man, trades, trades_index, pg_broken, mirror, broker_orders,
                   broker_pos, job, replay>>

NextDecision == DecisionStep

SpecDecision == InitDecision /\ [][NextDecision]_vars

\* ---------------------------------------------------- the reconciler alone
\* In Spec the service only ever buys X, so the table never holds a row of an
\* instrument the broker no longer lists.  SpecRecon runs the
\* 'portfolio_update' job on a table and on broker positions drawn from the
\* sets below: the table outlives a run of the service, and positions are
\* opened and closed at the broker outside it.
MirrorTables ==
    { <<>>,
      <<[symbol |-> "X", quantity |-> 2]>>,
      <<[symbol |-> "Y", quantity |-> 5]>>,
      <<[symbol |-> "X", quantity |-> 2], [symbol |-> "Y", quantity |-> 5]>>,
      <<[symbol |-> "Y", quantity |-> 2], [symbol |-> "X", quantity |-> 5]>> }

ReconQuantities == {0, 2, 5}

InitRecon ==
    /\ redis_client = TRUE
    /\ postgres_conn \in BOOLEAN
    /\ alpaca_api \in BOOLEAN
    /\ scheduler_running = TRUE
    /\ bot = BotOn
    /\ loop = Idle
    /\ cyc = CycIdle
    /\ ex = [t \in Callers |-> ExOff]
    /\ man = [m \in Manuals |-> ManIdle]
    /\ trades = <<>>
    /\ trades_index = "unknown"
    /\ pg_broken = FALSE
    /\ mirror \in MirrorTables
    /\ broker_orders = <<>>
    /\ broker_pos \in [Symbols -> ReconQuantities]
    /\ job = JobIdle
    /\ replay = ReplayIdle

\* A position is closed at the broker outside this service (the account is
\* the broker's): list_positions (main.py:268) no longer returns it.
BrokerClose ==
    /\ loop = Idle
    /\ \E s \in Symbols :
        /\ broker_pos[s] # 0
        /\ broker_pos' = [broker_pos EXCEPT ![s] = 0]
    /\ UNCHANGED <<redis_client, postgres_conn, alpaca_api, scheduler_running, bot,
                   loop, cyc, ex, man, trades, trades_index, pg_broken, mirror,
                   broker_orders, job, replay>>

NextRecon ==
    \/ ReconJob
    \/ ReconJobEnd
    \/ BrokerClose

SpecRecon == InitRecon /\ [][NextRecon]_vars

\* ------------------------------------------- a cycle in flight and a stop
\* scheduler.shutdown() (main.py:517, 561) runs in a handler, so only while
\* the event loop is free.  The scheduler's asyncio executor cancels the job
\* coroutines that are pending; whether it does is the library's choice, so
\* both outcomes are taken.  A coroutine is cancelled at the await where it
\* is suspended; CancelledError is not an Exception, no handler of the cycle
\* catches it.
shutdown(cancels) ==
    [cyc |-> IF cancels /\ cyc.pc # "idle" /\ (cyc.suspended \/ ex[Cycle].suspended)
             THEN [cyc EXCEPT !.pc = "cancelled", !.suspended = FALSE] ELSE cyc,
     ex |-> IF cancels /\ ex[Cycle].suspended
            THEN [ex EXCEPT ![Cycle].pc = "cancelled", ![Cycle].suspended = FALSE]
            ELSE ex]

\* The jobs after scheduler.shutdown(): scheduler = AsyncIOScheduler()
\* (main.py:52) keeps its jobs in memory, and that store drops them when it
\* is shut down.
shutdown_jobs(jobs) == <<>>

\* POST /bot/stop (main.py:512-527): a running scheduler is shut down, the
\* answer is "stopped" either way.
BotStop ==
    /\ loop = Idle
    /\ IF scheduler_running
       THEN \E cancels \in BOOLEAN :
                /\ cyc' = shutdown(cancels).cyc
                /\ ex' = shutdown(cancels).ex
                /\ bot' = [jobs |-> shutdown_jobs(bot.jobs), response |-> "stopped"]
       ELSE /\ UNCHANGED <<cyc, ex>>
            /\ bot' = [bot EXCEPT !.response = "stopped"]
    /\ scheduler_running' = FALSE
    /\ UNCHANGED <<redis_client, postgres_conn, alpaca_api, loop, man, trades,
                   trades_index, pg_broken, mirror, broker_orders, broker_pos,
                   job, replay>>

\* The server has stopped: no handler runs any more.
Down == <<"down">>

\* shutdown_event (main.py:556-566), once the requests in flight are
\* answered: the scheduler is shut down, the cache and store handles are
\* closed, and the event loop ends, which cancels what is still pending.
ShutdownEvent ==
    /\ loop = Idle /\ \A m \in Manuals : man[m].pc = "idle"
    /\ cyc' = shutdown(TRUE).cyc
    /\ ex' = shutdown(TRUE).ex
    /\ bot' = [bot EXCEPT !.jobs = IF scheduler_running THEN shutdown_jobs(@) ELSE @]
    /\ scheduler_running' = FALSE
    /\ redis_client' = FALSE
    /\ postgres_conn' = FALSE
    /\ loop' = Down
    /\ UNCHANGED <<alpaca_api, man, trades, trades_index, pg_broken, mirror,
                   broker_orders, broker_pos, job, replay>>

\* POST /bot/start (main.py:495-510): setup_scheduler on a scheduler that is
\* not running, then the answer "running"; an exception reaches the handler,
\* whose logger call raises: the server answers 500.
BotStart ==
    /\ loop = Idle
    /\ LET s == IF ~scheduler_running THEN setup_scheduler(scheduler_running, bot.jobs)
                ELSE [outcome |-> "ok", running |-> scheduler_running, jobs |-> bot.jobs]
       IN  /\ scheduler_running' = s.running
           /\ bot' = [jobs |-> s.jobs,
                      response |-> IF s.outcome = "raise" THEN "500" ELSE "running"]
    /\ UNCHANGED <<redis_client, postgres_conn, alpaca_api, loop, cyc, ex, man, trades,
                   trades_index, pg_broken, mirror, broker_orders, broker_pos,
                   job, replay>>

\* The control surface: startup, starts and stops in any order, the two
\* scheduled jobs while the scheduler runs, and the shutdown.
NextControl ==
    \/ Startup
    \/ BotStart
    \/ BotStop
    \/ ReconJob
    \/ ReconJobEnd
    \/ CycleFire
    \/ CycleLoadConfig
    \/ CyclePositions
    \/ CycleInstrument
    \/ CycleReconcile
    \/ CycleReturn
    \/ ShutdownEvent

SpecControl == Init /\ [][NextControl]_vars

\* The loop body with a score in hand, the executions it starts, the manual
\* requests beside it, and a stop at any moment the loop is free.
NextInFlight ==
    \/ DecisionStep
    \/ CycleReturn
    \/ \E t \in Callers : ExecStart(t)
    \/ \E t \in Callers : ExecPrice(t)
    \/ \E t \in Callers : ExecCapCheck(t)
    \/ \E t \in Callers : ExecSubmit(t)
    \/ \E t \in Callers : ExecPoll(t)
    \/ \E t \in Callers : ExecStore(t)
    \/ \E t \in Callers : ExecReturn(t)
    \/ \E m \in Manuals : ManualStart(m)
    \/ \E m \in Manuals : ManualClose(m)
    \/ BotStop
    \/ ShutdownEvent

SpecInFlight == InitDecision /\ [][NextInFlight]_vars

\* ------------------------------------------- a cycle asleep and the broker
\* The cycle is in the sleep that ended its first iteration (main.py:374),
\* the event loop free, its second instrument X still to come: manual
\* requests run and the broker fills their orders before the cycle wakes
\* with a score for X.
StaleDoc ==
    [symbols |-> <<"Y", "X">>,
     entry |-> [s \in Symbols |->
                  IF s = "X" THEN Entry(TRUE, FALSE, <<>>, Absent, 8000)
                  ELSE Entry(TRUE, TRUE, <<<<"twitter", 10>>>>, 5, Absent)],
     sentiment_weights |-> DefaultWeights]

StaleQuantities == {0, 40}

InitStale ==
    /\ redis_client = TRUE /\ postgres_conn = TRUE /\ alpaca_api = TRUE
    /\ scheduler_running = TRUE
    /\ bot = BotOn
    /\ loop = Idle
    /\ \E qx \in StaleQuantities :
        /\ cyc = [CycIdle EXCEPT !.pc = "instrument", !.loaded = "file",
                                 !.snapshot = "ok", !.suspended = TRUE,
                                 !.symbol = "Y", !.processed = {"Y"},
                                 !.config_data = StaleDoc, !.idx = 2,
                                 !.positions = [s \in Symbols |-> IF s = "X" THEN qx ELSE 0]]
        /\ broker_pos = cyc.positions
    /\ ex = [t \in Callers |-> ExOff]
    /\ man = [m \in Manuals |-> ManIdle]
    /\ trades = <<>>
    /\ trades_index = "unknown"
    /\ pg_broken = FALSE
    /\ mirror = <<>>
    /\ broker_orders = <<>>
    /\ job = JobIdle
    /\ replay = ReplayIdle

NextStale ==
    \/ DecisionStep
    \/ CycleReturn
    \/ \E t \in Callers : ExecStart(t)
    \/ \E t \in Callers : ExecPrice(t)
    \/ \E t \in Callers : ExecCapCheck(t)
    \/ \E t \in Callers : ExecSubmit(t)
    \/ \E t \in Callers : ExecPoll(t)
    \/ \E t \in Callers : ExecStore(t)
    \/ \E t \in Callers : ExecReturn(t)
    \/ \E m \in Manuals : ManualStart(m)
    \/ \E m \in Manuals : ManualClose(m)
    \/ BrokerFill

SpecStale == InitStale /\ [][NextStale]_vars

\* ================================================================= claims
\* ---- C1: trade persistence is idempotent on the broker order id: the
\* trades log never holds two records with one order id, and a store_trade
\* call for an order id that is already recorded ends as a success, never
\* with an exception.
NoDuplicateRecords ==
    \A i, j \in 1..Len(trades) :
        i # j => trades[i].alpaca_order_id # trades[j].alpaca_order_id
C1_IdempotentPersistence ==
    /\ NoDuplicateRecords
    /\ (replay.pc = "done" /\ replay.recorded /\ replay.store_ok) => replay.outcome = "ok"

\* ---- C2: an execution whose submission failed (no broker handle, or
\* submit_order raised or was rejected) has written no trade record: when it
\* returns, the trades log is the one it started with.
SubmissionFailed(x) ==
    x.pc = "return" /\ x.order_id = 0 /\ (x.attempts > 0 \/ ~alpaca_api)
C2_FailedSubmissionWritesNoTrade ==
    \A t \in Callers : SubmissionFailed(ex[t]) => Len(trades) = ex[t].log0
\* a submission that the broker refused, with the durable store available
C2_Witness ==
    \E t \in Callers : SubmissionFailed(ex[t]) /\ ex[t].attempts = 1 /\ postgres_conn

C4_FailureIsolation ==
    cyc.pc \in {"returned", "escaped"} =>
        \A i, j \in 1..Len(cyc.config_data.symbols) :
            (i < j /\ cyc.config_data.symbols[i] \in cyc.failed)
                => cyc.config_data.symbols[j] \in cyc.processed \cup cyc.failed

\* ---- C5: every cycle has performed its reconciliation pass when it ends.
C5_CycleAlwaysReconciles ==
    cyc.pc \in {"returned", "escaped"} => cyc.reconciled

\* ---- C6: no two executions for one instrument are between their cap check
\* and the persistence of their trade record at the same time.
InCritical(x) == x.pc \in {"submit", "poll", "store"}
C6_SerializedExecution ==
    \A t1, t2 \in Callers :
        (t1 # t2 /\ InCritical(ex[t1]) /\ InCritical(ex[t2]))
            => ex[t1].symbol # ex[t2].symbol
\* a second execution for an instrument is in its critical section after a
\* first one for the same instrument has submitted its order
C6_Witness ==
    \E t \in Callers :
        /\ ex[t].pc = "store" /\ ex[t].order_id = 2
        /\ broker_orders[1].symbol = ex[t].symbol

\* ---- C7: every order that execute_trade has submitted satisfies
\* quantity x price <= cap, with the price execute_trade fetched and the cap
\* of the instrument's entry or else the process-wide default.
CapOf(x) ==
    IF x.entry_cap # Absent THEN x.entry_cap ELSE max_position_size_default
C7_SubmittedWithinCap ==
    \A t \in Callers :
        ex[t].order_id # 0 => ex[t].quantity * ex[t].current_price <= CapOf(ex[t])
\* an order submitted with a notional equal to the cap
C7_Witness ==
    \E t \in Callers :
        ex[t].order_id # 0 /\ ex[t].quantity * ex[t].current_price = CapOf(ex[t])

\* ---- C8: the position the broker holds for an instrument never has a
\* notional above the instrument's cap, even at the lowest price an order
\* was checked at and under the most generous configuration of the cap.
LowestPrice == CHOOSE p \in Prices : \A q \in Prices : p <= q
ConfiguredCap(doc, symbol) ==
    LET e == doc.entry[symbol] IN
    IF e.present /\ e.max_position_size # Absent THEN e.max_position_size
    ELSE max_position_size_default
C8_BoundedPosition ==
    \A s \in Symbols :
        \E doc \in ConfigDocs : broker_pos[s] * LowestPrice <= ConfiguredCap(doc, s)

\* ---- C9: aggregate_sentiment returns None exactly when no source
\* contributed a usable observation, and returns the score 0 when the
\* contributing sources' weighted mean is 0.
ContributingSources(weights, obs) ==
    {k \in 1..Len(weights) : \E i \in 1..Len(obs[weights[k][1]]) :
                                i <= KeysLimit /\ obs[weights[k][1]][i].ok}
RECURSIVE RSum(_, _, _)
RSum(S, weights, obs) ==
    IF S = {} THEN RZero
    ELSE LET k == CHOOSE x \in S : TRUE
             usable == {i \in 1..Len(obs[weights[k][1]]) :
                            i <= KeysLimit /\ obs[weights[k][1]][i].ok}
             total == SumSeq(SelectSeq(obs[weights[k][1]], LAMBDA e : e.ok))
         IN  RAdd(Rat(total * weights[k][2], Cardinality(usable)),
                  RSum(S \ {k}, weights, obs))
RECURSIVE WSum(_, _)
WSum(S, weights) ==
    IF S = {} THEN 0
    ELSE LET k == CHOOSE x \in S : TRUE IN weights[k][2] + WSum(S \ {k}, weights)
C9_ZeroScoreIsASignal ==
    cyc.agg.scanned =>
        LET C == ContributingSources(cyc.agg.weights, cyc.obs) IN
        /\ cyc.agg.kind = "none" <=> C = {}
        /\ (C # {} /\ RSum(C, cyc.agg.weights, cyc.obs).n = 0)
              => (cyc.agg.kind = "score" /\ cyc.agg.weighted_score.n = 0)

\* ---- C10: the weighted score computed at main.py:159 is
\* sum(mean_s x weight_s) / sum(weight_s) over the configured sources with
\* at least one usable observation; other sources add nothing to either sum.
C10_WeightedMean ==
    cyc.agg.computed =>
        LET C == ContributingSources(cyc.agg.weights, cyc.obs) IN
        /\ cyc.agg.total_weight = WSum(C, cyc.agg.weights)
        /\ cyc.agg.source_count = Cardinality(C)
        /\ REq(cyc.agg.weighted_score,
               RDivInt(RSum(C, cyc.agg.weights, cyc.obs), WSum(C, cyc.agg.weights)))
\* weights 0.4/0.3/0.3 with the 0.3 source "reddit" empty: weight sum 0.7 and
\* score (0.7 x 0.4 + 0.5 x 0.3) / 0.7, that is 4.3 / 0.7 in tenths
C10_Witness ==
    /\ cyc.agg.computed
    /\ cyc.agg.total_weight = 7
    /\ cyc.obs["reddit"] = <<>>
    /\ REq(cyc.agg.weighted_score, Rat(43, 7))

\* ---- C11: whenever aggregate_sentiment computes a weighted score (the
\* contributing weight sum is > 0), the score is not below the smallest and
\* not above the largest of the contributing sources' mean scores.
SourceMean(weights, obs, k) ==
    LET usable == SelectSeq(obs[weights[k][1]], LAMBDA e : e.ok)
    IN  Rat(SumSeq(usable), Len(usable))
C11_ScoreWithinSourceRange ==
    cyc.agg.computed =>
        LET C == ContributingSources(cyc.agg.weights, cyc.obs) IN
        /\ \E k \in C : ~RGt(SourceMean(cyc.agg.weights, cyc.obs, k), cyc.agg.weighted_score)
        /\ \E k \in C : ~RLt(SourceMean(cyc.agg.weights, cyc.obs, k), cyc.agg.weighted_score)

\* ---- C12: when the score handed to the decision code equals the
\* instrument's threshold, or its negation, the decision is NONE and no
\* order goes to execute_trade, whatever the position of the instrument.
Decided == cyc.agg.at = "data" /\ cyc.agg.kind = "score"
ConfiguredThreshold(doc, symbol) ==
    LET e == doc.entry[symbol] IN
    IF e.present /\ e.sentiment_threshold # Absent THEN e.sentiment_threshold
    ELSE sentiment_threshold_default
AtThreshold ==
    LET thr == ConfiguredThreshold(cyc.config_data, cyc.symbol) IN
    \/ REq(cyc.agg.weighted_score, Rat(thr, 1))
    \/ REq(cyc.agg.weighted_score, Rat(0 - thr, 1))
C12_StrictThreshold ==
    (Decided /\ AtThreshold) => (cyc.decision = "NONE" /\ ex[Cycle].pc = "off")
\* a score equal to the threshold for an instrument without a position: no
\* BUY, and the iteration ends without an exception
C12_Witness ==
    /\ Decided /\ cyc.positions[cyc.symbol] = 0
    /\ REq(cyc.agg.weighted_score,
           Rat(ConfiguredThreshold(cyc.config_data, cyc.symbol), 1))
    /\ cyc.decision = "NONE" /\ cyc.pc # "escaped"

\* ---- C13: once the aggregation for an instrument has computed a score, the
\* cycle has issued a BUY for it exactly when the score is strictly above the
\* threshold, the position snapshot has no position for it and the cap sizes
\* a quantity > 0 at the quoted prices.
Sizable(doc, symbol) == \A p \in Prices : ConfiguredCap(doc, symbol) \div p > 0
C13_BuyExactlyWhen ==
    cyc.agg.computed =>
        (cyc.decision = "BUY" <=>
            /\ RGt(cyc.agg.weighted_score,
                   Rat(ConfiguredThreshold(cyc.config_data, cyc.symbol), 1))
            /\ cyc.positions[cyc.symbol] = 0
            /\ Sizable(cyc.config_data, cyc.symbol))

\* ---- C14: once the aggregation for an instrument has computed a score
\* strictly below the negated threshold and the snapshot holds a quantity > 0
\* of it, the cycle has issued a SELL for exactly that quantity; without such
\* a position it issues no SELL.
C14_FullLiquidation ==
    cyc.agg.computed =>
        /\ (/\ RLt(cyc.agg.weighted_score,
                    Rat(0 - ConfiguredThreshold(cyc.config_data, cyc.symbol), 1))
            /\ cyc.positions[cyc.symbol] > 0)
              => (cyc.decision = "SELL" /\
                  (cyc.pc = "executing" => ex[Cycle].quantity = cyc.positions[cyc.symbol]))
        /\ cyc.positions[cyc.symbol] <= 0 => cyc.decision # "SELL"

\* ---- C15: the quantity of a BUY that the decision code hands to
\* execute_trade is floor(cap / price): it is > 0 and
\* quantity x price <= cap < (quantity + 1) x price.
C15_FloorSizing ==
    (Decided /\ cyc.decision = "BUY") =>
        LET cap == max_position_size_of(symbol_config(cyc.config_data, cyc.symbol))
            q == ex[Cycle].quantity
        IN  /\ q > 0
            /\ q * cyc.current_price <= cap
            /\ cap < (q + 1) * cyc.current_price
\* cap 10000 and price 334 give 29, not 30
C15_Witness ==
    /\ Decided /\ cyc.decision = "BUY"
    /\ max_position_size_of(symbol_config(cyc.config_data, cyc.symbol)) = 10000
    /\ cyc.current_price = 334 /\ ex[Cycle].quantity = 29

NoSignal == cyc.agg.kind = "none" /\ cyc.agg.at \in {"nocache", "data"}
C17_NoSignalNoOrder ==
    NoSignal =>
        /\ cyc.decision = "NONE" /\ cyc.current_price = 0
        /\ ex[Cycle].pc = "off"
        /\ cyc.symbol \in cyc.processed \ cyc.failed
        /\ cyc.pc \in {"instrument", "reconcile", "returned", "escaped"}
\* no signal for an instrument of which the snapshot holds a position, with
\* entries in the cache of which none is usable
C17_Witness ==
    /\ NoSignal /\ cyc.agg.scanned
    /\ cyc.positions[cyc.symbol] > 0
    /\ cyc.symbol \in cyc.processed

\* ---- C18: a cycle whose config load found the file unreadable still ends
\* with its reconciliation pass done.
C18_UnreadableConfigStillRuns ==
    (cyc.pc \in {"returned", "escaped"} /\ cyc.loaded = "unreadable") => cyc.reconciled

\* ---- C19: an instrument whose config entry is empty (defines none of
\* weights, sentiment_threshold, max_position_size) is never refused by the
\* aggregator for lack of configuration: its fields fall back to the general
\* defaults.
C19_EmptyEntryFallsBack ==
    cyc.agg.at # "empty"

\* ---- C20: the position mirror has at most one row per instrument, and
\* when a reconciliation has committed, the row of every position it wrote
\* holds the quantity the broker reported.
RowsOf(m, symbol) == {i \in 1..Len(m) : m[i].symbol = symbol}
C20_MirrorUpsert ==
    /\ \A s \in Symbols : Cardinality(RowsOf(mirror, s)) <= 1
    /\ job.committed =>
          \A s \in Symbols :
              job.positions[s] # 0 =>
                  \E i \in RowsOf(mirror, s) : mirror[i].quantity = job.positions[s]
\* a reconciliation that has overwritten the quantity of an existing row
C20_Witness ==
    job.committed /\ job.overwrote /\ Len(mirror) = 1

\* ---- C21: reconciliation never deletes a mirror row.  In every step each
\* row stays in its place with its symbol, a row whose instrument the broker
\* does not list keeps its values, and a run of the job whose list_positions
\* call failed leaves the table as it was.
C21_NoMirrorRowDeleted ==
    [][ /\ \A i \in 1..Len(mirror) :
            /\ i <= Len(mirror')
            /\ mirror'[i].symbol = mirror[i].symbol
            /\ broker_pos[mirror[i].symbol] = 0 => mirror'[i] = mirror[i]
        /\ (job.pc = "idle" /\ job'.pc # "idle" /\ ~job'.listed) => mirror' = mirror
      ]_vars

\* A reconciliation has committed while the table holds a row of an
\* instrument that the written list does not contain.
C21_Witness ==
    /\ job.pc # "idle" /\ job.committed /\ job.listed
    /\ \E i \in 1..Len(mirror) : job.positions[mirror[i].symbol] = 0

\* ---- C22: a stop of the scheduler (/bot/stop or the shutdown event) never
\* interrupts an execution: no execution is ever cancelled, and a cycle that
\* a stop cancels was waiting between two instruments, its last instrument
\* processed and no execution of it open.
C22_StopNeverSplitsExecution ==
    /\ \A t \in Callers : ex[t].pc # "cancelled"
    /\ cyc.pc = "cancelled" =>
          /\ ex[Cycle].pc = "off"
          /\ cyc.symbol \in cyc.processed
          /\ cyc.symbol \notin cyc.failed

\* A stop has cancelled a cycle that was in flight.
C22_Witness == cyc.pc = "cancelled" /\ ~scheduler_running /\ loop = Idle

\* ---- C23: no exception leaves run_trading_bot or
\* update_portfolio_positions: neither scheduled job ever ends with an
\* exception that reaches the scheduler's job runner.
C23_NoExceptionEscapes ==
    /\ cyc.pc # "escaped"
    /\ job.pc # "escaped"

\* ---- C24: a manual trade whose execution failed is answered with a
\* failure and never with the success body; when no order was submitted the
\* trades log is the one the request found; the success body is only sent
\* for an order that was submitted and whose status was read.
C24_FailedManualTradeFails ==
    \A m \in Manuals :
        man[m].pc = "responded" =>
            LET x == man[m].exec IN
            /\ x.result # "status" => man[m].response = "500"
            /\ x.order_id = 0 => (man[m].response = "500" /\ Len(trades) = x.log0)
            /\ man[m].response = "200" => (x.order_id # 0 /\ x.order_status # "none")

\* A manual trade whose submission failed has been answered, with the store
\* connected.
C24_Witness ==
    \E m \in Manuals :
        /\ man[m].pc = "responded" /\ man[m].response = "500"
        /\ man[m].exec.attempts = 1 /\ man[m].exec.order_id = 0
        /\ postgres_conn

PriceMissingInCycle ==
    /\ cyc.agg.kind = "score"
    /\ RGt(cyc.agg.weighted_score, Rat(ConfiguredThreshold(cyc.config_data, cyc.symbol), 1))
    /\ cyc.positions[cyc.symbol] = 0
    /\ cyc.current_price = 0
PriceMissing(x) == x.pc = "return" /\ alpaca_api /\ x.current_price = 0
NoOrderNoRecord(x) == x.attempts = 0 /\ x.order_id = 0 /\ Len(trades) = x.log0
C26_NoPriceNoOrder ==
    /\ PriceMissingInCycle => (cyc.decision = "NONE" /\ ex[Cycle].pc = "off"
                               /\ cyc.pc # "executing")
    /\ \A t \in Callers : PriceMissing(ex[t]) => NoOrderNoRecord(ex[t])
    /\ \A m \in Manuals :
          (man[m].pc = "responded" /\ PriceMissing(man[m].exec))
              => (NoOrderNoRecord(man[m].exec) /\ man[m].response = "500")

\* The cycle has passed an instrument for lack of a price, and a manual trade
\* has been answered after the oracle gave no price.
C26_Witness ==
    /\ PriceMissingInCycle /\ cyc.symbol \in cyc.processed
    /\ \E m \in Manuals : man[m].pc = "responded" /\ PriceMissing(man[m].exec)

\* ---- C27: the steps of an execution come in one order: the cap check, one
\* submit_order, one get_order, the persistence.  An execution at
\* submit_order has passed the cap check and called neither the broker nor
\* the store; at get_order it has submitted once and not polled; at the
\* persistence step it has submitted once and polled once; when it returns it
\* has submitted and polled at most once, and if it wrote a record it wrote
\* one, for the order it submitted and polled.
C27_ExecutorOrder ==
    \A t \in Callers :
        LET x == ex[t] IN
        /\ x.pc = "submit" =>
              /\ x.attempts = 0 /\ x.polls = 0 /\ x.order_id = 0
              /\ x.current_price > 0
              /\ x.quantity * x.current_price <= x.max_position_size
              /\ Len(trades) = x.log0
        /\ x.pc = "poll" =>
              /\ x.attempts = 1 /\ x.polls = 0 /\ x.order_id # 0
              /\ x.order_status = "none"
              /\ Len(trades) = x.log0
        /\ x.pc = "store" =>
              /\ x.attempts = 1 /\ x.polls = 1 /\ x.order_status # "none"
              /\ Len(trades) = x.log0
        /\ x.pc = "return" =>
              /\ x.attempts <= 1 /\ x.polls <= 1
              /\ Len(trades) \in {x.log0, x.log0 + 1}
              /\ Len(trades) = x.log0 + 1 =>
                    /\ x.attempts = 1 /\ x.polls = 1 /\ x.order_status # "none"
                    /\ trades[Len(trades)].alpaca_order_id = x.order_id

\* An execution returns after it has written its trade record.
C27_Witness ==
    \E t \in Callers :
        /\ ex[t].pc = "return" /\ Len(trades) = ex[t].log0 + 1
        /\ ex[t].polls = 1

\* ---- C28: malformed observations and sources without a usable observation
\* are skipped: when a source is empty or holds a malformed entry, the scan
\* still runs to its end, and what it computes is what it computes from the
\* cache with the malformed entries taken out: the sources that count are
\* those with a well-formed entry left, a score is computed exactly when
\* their weights sum to more than 0, and it is their weighted mean.
WellFormed(obs) == [s \in Sources |-> SelectSeq(obs[s], LAMBDA e : e.ok)]
Degraded(weights, obs) ==
    \E k \in 1..Len(weights) :
        \/ obs[weights[k][1]] = <<>>
        \/ \E i \in 1..Len(obs[weights[k][1]]) : ~obs[weights[k][1]][i].ok
C29_RecoversAfterOutage ==
    /\ loop # Boot => scheduler_running
    /\ (job.pc # "idle" /\ job.listed /\ job.store_up) => job.committed

\* ---- C30: every order that submit_order accepted has exactly one trade
\* record when its execution has finished, and execute_trade reports success
\* only for an order that has a record.
RecordsOf(id) == {i \in 1..Len(trades) : trades[i].alpaca_order_id = id}
C30_SubmittedOrderRecorded ==
    \A t \in Callers :
        (ex[t].pc = "return" /\ ex[t].order_id # 0) =>
            /\ Cardinality(RecordsOf(ex[t].order_id)) = 1
            /\ ex[t].result = "status" => HasRecord(trades, ex[t].order_id)

\* ---- C31: a cycle whose position fetch failed does not go on as if no
\* position were held: it ends at the fetch, no instrument is looked at, no
\* execution is started, so no BUY is submitted for an instrument the broker
\* holds.
C31_FailedFetchIsNotEmpty ==
    cyc.snapshot = "failed" =>
        /\ cyc.pc = "escaped"
        /\ cyc.processed = {} /\ cyc.failed = {}
        /\ cyc.decision = "NONE"
        /\ ex[Cycle].pc = "off"

\* The position fetch of a cycle failed while the broker holds an
\* instrument that the cycle's configuration lists.
C31_Witness ==
    /\ cyc.snapshot = "failed"
    /\ \E i \in 1..Len(cyc.config_data.symbols) : broker_pos[cyc.config_data.symbols[i]] > 0

C34_StoredStatusIsPolledStatus ==
    \A t \in Callers :
        (/\ ex[t].pc = "return" /\ ex[t].polls = 1
         /\ Len(trades) = ex[t].log0 + 1
         /\ trades[Len(trades)].alpaca_order_id = ex[t].order_id)
            => (trades[Len(trades)].status = "FILLED" => ex[t].order_status = "filled")


\* ---- C35: after any sequence of startup, /bot/start and /bot/stop the
\* scheduler holds at most one 'trading_bot' job and at most one
\* 'portfolio_update' job; a /bot/start on a running scheduler and a /bot/stop
\* on a stopped one leave the scheduler as it was; and /bot/start answers
\* "running" only with the scheduler running when it returns.
C35_JobCount(id) == Cardinality({i \in 1..Len(bot.jobs) : bot.jobs[i] = id})
C35_StartStep == loop = Idle /\ loop' = Idle /\ bot'.response \in {"running", "500"}
C35_StopStep == loop = Idle /\ loop' = Idle /\ bot'.response = "stopped"
C35_SchedulerControl ==
    /\ [](C35_JobCount("trading_bot") <= 1 /\ C35_JobCount("portfolio_update") <= 1)
    /\ [][ /\ (C35_StartStep /\ scheduler_running) =>
                (scheduler_running' /\ bot'.jobs = bot.jobs)
           /\ (C35_StopStep /\ ~scheduler_running) =>
                (~scheduler_running' /\ bot'.jobs = bot.jobs)
           /\ (C35_StartStep /\ bot'.response = "running") => scheduler_running'
         ]_vars
\* The scheduler was started, stopped and started again, and holds its jobs.
C35_Witness ==
    /\ scheduler_running /\ bot.response = "running" /\ loop = Idle
    /\ Len(bot.jobs) = 2

====
